---- MODULE Spec2Model ----
(***************************************************************************)
(* Model of internal/os/filesystem/api.go (csi-proxy): the filesystem API  *)
(* PathExists, PathValid, Mkdir, Rmdir, LinkPath and IsMountPoint, run      *)
(* against a small filesystem tree.                                        *)
(*                                                                         *)
(* The OS primitives the API passes through to (os.Lstat, os.Readlink,     *)
(* os.MkdirAll, os.Remove, os.RemoveAll, os.Symlink, exec.Cmd) are modelled*)
(* by their documented behaviour on the target platform (Windows): a       *)
(* lookup through a missing or non-directory component reports "not found",*)
(* a name the OS rejects reports an error that is not "not found", and a   *)
(* chain of links that never ends reports a resolution error.              *)
(***************************************************************************)
EXTENDS Integers, Sequences, FiniteSets, TLC

VARIABLES fs, last, sc, mp, nops

vars == <<fs, last, sc, mp, nops>>

(***************************************************************************)
(* Bounds and the path universe                                            *)
(***************************************************************************)
\* number of mutating calls (Mkdir, Rmdir, LinkPath, external file creation)
MaxOps == 2

Names == {"a", "b"}
\* a name the OS refuses (illegal character / over-long component)
BadName == "*"
Root == <<>>
\* the one- and two-component paths in which no name repeats
Paths == {<<n>> : n \in Names} \cup {p \in Names \X Names : p[1] # p[2]}
\* the path arguments callers pass
Args == Paths \cup {Root, <<BadName>>}
\* a chain of more links than there are paths never ends
Fuel == Cardinality(Paths) + 1

Kinds == {"none", "dir", "file", "link"}
NoNode == [kind |-> "none", target |-> Root]
DirNode == [kind |-> "dir", target |-> Root]
FileNode == [kind |-> "file", target |-> Root]
LinkNode(t) == [kind |-> "link", target |-> t]

Parent(p) == SubSeq(p, 1, Len(p) - 1)
Base(p) == p[Len(p)]
HasBadName(p) == \E i \in 1..Len(p) : p[i] = BadName
IsPrefix(p, q) == Len(p) <= Len(q) /\ SubSeq(q, 1, Len(p)) = p
HasChildren(f, p) == \E q \in Paths : Parent(q) = p /\ f[q].kind # "none"

(***************************************************************************)
(* Errors                                                                  *)
(***************************************************************************)
Err(code) == [code |-> code, out |-> <<>>]
Nil == Err("nil")
\* os.IsNotExist
IsNotExist(e) == e.code = "NotExist"

Ret(v, e) == [val |-> v, err |-> e]

(***************************************************************************)
(* OS primitives                                                           *)
(***************************************************************************)
StatOk(q, k) == [err |-> Nil, real |-> q, kind |-> k]
StatFail(code) == [err |-> Err(code), real |-> Root, kind |-> "none"]

\* path resolution: every component but the last is followed through links;
\* the last one is followed only when follow is TRUE
RECURSIVE Walk(_, _, _, _)
Walk(f, p, follow, fuel) ==
  IF HasBadName(p) THEN StatFail("InvalidName")
  ELSE IF p = Root THEN StatOk(Root, "dir")
  ELSE LET par == Walk(f, Parent(p), TRUE, fuel)
       IN IF par.err # Nil THEN par
          ELSE IF par.kind # "dir" THEN StatFail("NotExist")
          ELSE LET q == Append(par.real, Base(p))
               IN IF q \notin Paths THEN StatFail("NotExist")
                  ELSE IF f[q].kind = "none" THEN StatFail("NotExist")
                  ELSE IF f[q].kind = "link" /\ follow
                       THEN IF fuel = 0 THEN StatFail("Loop")
                            ELSE Walk(f, f[q].target, TRUE, fuel - 1)
                  ELSE StatOk(q, f[q].kind)

\* os.Lstat: does not follow a link in the last component
Lstat(f, p) == Walk(f, p, FALSE, Fuel)
\* os.Stat: follows links
Stat(f, p) == Walk(f, p, TRUE, Fuel)

\* os.Readlink
Readlink(f, p) ==
  LET st == Lstat(f, p)
  IN IF st.err # Nil THEN [err |-> st.err, target |-> Root]
     ELSE IF st.kind # "link" THEN [err |-> Err("InvalidArg"), target |-> Root]
     ELSE [err |-> Nil, target |-> f[st.real].target]

\* where a new entry named p would be placed
Slot(f, p) ==
  IF HasBadName(p) THEN StatFail("InvalidName")
  ELSE IF p = Root THEN StatFail("Exists")
  ELSE LET par == Stat(f, Parent(p))
       IN IF par.err # Nil THEN par
          ELSE IF par.kind # "dir" THEN StatFail("NotExist")
          ELSE LET q == Append(par.real, Base(p))
               IN IF q \notin Paths THEN StatFail("OutOfModel")
                  ELSE IF f[q].kind # "none" THEN StatFail("Exists")
                  ELSE StatOk(q, "none")

Create(f, p, node) ==
  LET s == Slot(f, p)
  IN IF s.err # Nil THEN [fs |-> f, err |-> s.err]
     ELSE [fs |-> [f EXCEPT ![s.real] = node], err |-> Nil]

\* os.Mkdir
OsMkdir(f, p) == Create(f, p, DirNode)

\* os.Symlink(oldname, newname)
Symlink(f, oldname, newname) == Create(f, newname, LinkNode(oldname))

\* os.MkdirAll
RECURSIVE MkdirAll(_, _)
MkdirAll(f, p) ==
  LET st == Stat(f, p)
  IN IF st.err = Nil
     THEN IF st.kind = "dir" THEN [fs |-> f, err |-> Nil]
          ELSE [fs |-> f, err |-> Err("NotDir")]
     ELSE LET up == IF Len(p) > 1 THEN MkdirAll(f, Parent(p))
                    ELSE [fs |-> f, err |-> Nil]
          IN IF up.err # Nil THEN up
             ELSE LET mk == OsMkdir(up.fs, p)
                      ls == Lstat(up.fs, p)
                  IN IF mk.err = Nil THEN mk
                     ELSE IF ls.err = Nil /\ ls.kind = "dir"
                          THEN [fs |-> up.fs, err |-> Nil]
                     ELSE [fs |-> up.fs, err |-> mk.err]

\* os.Remove: a file, a link or an empty directory
Remove(f, p) ==
  LET st == Lstat(f, p)
  IN IF st.err # Nil THEN [fs |-> f, err |-> st.err]
     ELSE IF st.real = Root THEN [fs |-> f, err |-> Err("Busy")]
     ELSE IF st.kind = "dir" /\ HasChildren(f, st.real)
          THEN [fs |-> f, err |-> Err("NotEmpty")]
     ELSE [fs |-> [f EXCEPT ![st.real] = NoNode], err |-> Nil]

\* os.RemoveAll: the entry and everything beneath it; nil when it is absent
RemoveAll(f, p) ==
  LET st == Lstat(f, p)
  IN IF st.err # Nil
     THEN IF IsNotExist(st.err) THEN [fs |-> f, err |-> Nil]
          ELSE [fs |-> f, err |-> st.err]
     ELSE IF st.real = Root THEN [fs |-> f, err |-> Err("Busy")]
     ELSE [fs |-> [q \in Paths |-> IF IsPrefix(st.real, q) THEN NoNode ELSE f[q]],
           err |-> Nil]

(***************************************************************************)
(* The output of the external resolution mechanism (powershell Test-Path)  *)
(***************************************************************************)
Lower == [c \in {"T", "R", "U", "E", "F", "A", "L", "S"} |->
            CASE c = "T" -> "t" [] c = "R" -> "r" [] c = "U" -> "u"
              [] c = "E" -> "e" [] c = "F" -> "f" [] c = "A" -> "a"
              [] c = "L" -> "l" [] c = "S" -> "s"]
\* strings.ToLower
ToLower(s) == [i \in 1..Len(s) |-> IF s[i] \in DOMAIN Lower THEN Lower[s[i]] ELSE s[i]]
\* strings.HasPrefix
HasPrefix(s, pre) == Len(s) >= Len(pre) /\ SubSeq(s, 1, Len(pre)) = pre

TrueTok == <<"t", "r", "u", "e">>
FalseTok == <<"f", "a", "l", "s", "e">>
Outputs == { <<"T", "r", "u", "e", "\r", "\n">>,
             <<"F", "a", "l", "s", "e", "\r", "\n">>,
             <<"T", "R", "U", "E">>,
             <<"t", "r", "u", "e">>,
             <<"f", "a", "l", "s", "e">>,
             <<"o", "o", "p", "s", "\n">>,
             <<>> }
\* err of cmd.CombinedOutput(): nil, a non-zero exit, or the command not started
RunErrs == {"nil", "exit status 1", "executable file not found"}

(***************************************************************************)
(* The filesystem API (api.go)                                             *)
(***************************************************************************)
\* variant: a missing path is reported as an error
pathExists_NotFoundIsError(f, path) ==
  LET st == Lstat(f, path)
  IN IF st.err = Nil THEN Ret(TRUE, Nil) ELSE Ret(FALSE, st.err)

\* variant: os.Stat in place of os.Lstat
pathExists_Follow(f, path) ==
  LET st == Stat(f, path)
  IN IF st.err = Nil THEN Ret(TRUE, Nil)
     ELSE IF IsNotExist(st.err) THEN Ret(FALSE, Nil)
     ELSE Ret(FALSE, st.err)

pathExists(f, path) ==
  LET st == Lstat(f, path)
  IN IF st.err = Nil THEN Ret(TRUE, Nil)
     ELSE IF IsNotExist(st.err) THEN Ret(FALSE, Nil)
     ELSE Ret(FALSE, st.err)

PathExists(f, path) == pathExists(f, path)

\* variant: the output is compared without folding its case
pathValid_CaseSensitive(run, output) ==
  IF run # "nil" THEN Ret(FALSE, [code |-> run, out |-> output])
  ELSE Ret(HasPrefix(output, TrueTok), Nil)

pathValid(run, output) ==
  IF run # "nil" THEN Ret(FALSE, [code |-> run, out |-> output])
  ELSE Ret(HasPrefix(ToLower(output), TrueTok), Nil)

PathValid(run, output) == pathValid(run, output)

\* variant: os.Mkdir in place of os.MkdirAll
Mkdir_NotRecursive(f, path) == OsMkdir(f, path)

Mkdir(f, path) == MkdirAll(f, path)

\* variant: force is ignored
Rmdir_IgnoreForce(f, path, force) == Remove(f, path)

Rmdir(f, path, force) == IF force THEN RemoveAll(f, path) ELSE Remove(f, path)

LinkPath(f, oldname, newname) == Symlink(f, oldname, newname)

\* IsMountPoint, one OS call at a time.  Each step either returns
\* (done = TRUE with the result) or goes on to the next step.
\* variant: a missing path is a clean negative
MpLstat_SwallowNotExist(f, tgt) ==
  LET st == Lstat(f, tgt)
  IN IF st.err # Nil
     THEN [done |-> TRUE,
           ret |-> IF IsNotExist(st.err) THEN Ret(FALSE, Nil) ELSE Ret(FALSE, st.err)]
     ELSE IF st.kind = "link" THEN [done |-> FALSE, ret |-> Ret(FALSE, Nil)]
     ELSE [done |-> TRUE, ret |-> Ret(FALSE, Nil)]

\* variant: os.Stat in place of os.Lstat, so a link is never seen
MpLstat_Follow(f, tgt) ==
  LET st == Stat(f, tgt)
  IN IF st.err # Nil THEN [done |-> TRUE, ret |-> Ret(FALSE, st.err)]
     ELSE IF st.kind = "link" THEN [done |-> FALSE, ret |-> Ret(FALSE, Nil)]
     ELSE [done |-> TRUE, ret |-> Ret(FALSE, Nil)]

MpLstat(f, tgt) ==
  LET st == Lstat(f, tgt)
  IN IF st.err # Nil THEN [done |-> TRUE, ret |-> Ret(FALSE, st.err)]
     ELSE IF st.kind = "link" THEN [done |-> FALSE, ret |-> Ret(FALSE, Nil)]
     ELSE [done |-> TRUE, ret |-> Ret(FALSE, Nil)]

MpReadlink(f, tgt) ==
  LET rl == Readlink(f, tgt)
  IN IF rl.err # Nil
     THEN [done |-> TRUE, ret |-> Ret(FALSE, Err("readlink error: " \o rl.err.code)),
           target |-> Root]
     ELSE [done |-> FALSE, ret |-> Ret(FALSE, Nil), target |-> rl.target]

\* variant: a link that can be read is a mount point
MpExists_IgnoreTarget(f, target) == Ret(TRUE, Nil)

\* variant: a missing target is reported as an error
MpExists_Strict(f, target) ==
  LET st == Lstat(f, target)
  IN IF st.err # Nil THEN Ret(FALSE, st.err) ELSE Ret(TRUE, Nil)

MpExists(f, target) ==
  LET ex == pathExists(f, target)
  IN IF ex.err # Nil THEN Ret(FALSE, ex.err) ELSE Ret(ex.val, Nil)

IsMountPoint(f, tgt) ==
  LET s1 == MpLstat(f, tgt)
      s2 == MpReadlink(f, tgt)
  IN IF s1.done THEN s1.ret
     ELSE IF s2.done THEN s2.ret
     ELSE MpExists(f, s2.target)

(***************************************************************************)
(* State                                                                   *)
(*   fs    the filesystem tree                                             *)
(*   last  the latest API call and what it returned                        *)
(*   sc    a caller running a fixed sequence of calls with nothing else    *)
(*         interleaved, and the results it has collected                   *)
(*   mp    an IsMountPoint call in progress, one OS call per step, while   *)
(*         another process removes directories and links                   *)
(*   nops  the number of mutating calls made so far                        *)
(***************************************************************************)
Call(op, path, old, force, run, out, ret) ==
  [op |-> op, path |-> path, old |-> old, force |-> force, run |-> run,
   out |-> out, val |-> ret.val, err |-> ret.err]
NoCall == Call("none", Root, Root, FALSE, "nil", <<>>, Ret(FALSE, Nil))

Step(op, force, on) == [op |-> op, force |-> force, on |-> on]
ScriptNames == {"lifecycle", "mkdir2", "rmdir2", "teardown"}
ScriptOf(name) ==
  CASE name = "lifecycle" ->
         << Step("PathExists", "any", "path"), Step("Mkdir", "any", "path"),
            Step("PathExists", "any", "path"), Step("Rmdir", "no", "path"),
            Step("PathExists", "any", "path") >>
    [] name = "mkdir2" ->
         << Step("Mkdir", "any", "path"), Step("Mkdir", "any", "path") >>
    [] name = "rmdir2" ->
         << Step("Rmdir", "no", "path"), Step("Rmdir", "yes", "path") >>
    [] name = "teardown" ->
         << Step("IsMountPoint", "any", "path"), Step("Rmdir", "any", "tgt"),
            Step("IsMountPoint", "any", "path"), Step("IsMountPoint", "any", "path") >>
    [] OTHER -> << >>

NoScript == [name |-> "none", path |-> Root, tgt |-> Root, pre |-> "none", res |-> << >>]
Active == Len(sc.res) < Len(ScriptOf(sc.name))
Running == mp.pc \notin {"idle", "done"}

\* what the filesystem holds at p before a script starts
Classify(f, p) ==
  LET st == Lstat(f, p)
  IN IF st.err # Nil THEN st.err.code
     ELSE IF st.kind = "dir" /\ HasChildren(f, st.real) THEN "dirNonEmpty"
     ELSE st.kind

\* a call may run when no script is in progress, or when it is the script's next step
Permit(op, p, force) ==
  IF ~Active THEN TRUE
  ELSE LET s == ScriptOf(sc.name)[Len(sc.res) + 1]
       IN /\ s.op = op
          /\ p = (IF s.on = "tgt" THEN sc.tgt ELSE sc.path)
          /\ s.force \in {"any", IF force THEN "yes" ELSE "no"}
\* the calls of a script and the removals of a race are bounded by
\* themselves; every other mutating call draws on the budget
Budget == Active \/ Running \/ nops < MaxOps
Advance(ret) == IF Active THEN [sc EXCEPT !.res = Append(@, ret)] ELSE NoScript

\* L is a link whose target exists
Mounted(f, p) ==
  LET st == Lstat(f, p)
  IN st.err = Nil /\ st.kind = "link" /\ Lstat(f, f[st.real].target).err = Nil
IdleMp == [pc |-> "idle", path |-> Root, target |-> Root, ret |-> Ret(FALSE, Nil),
           linkTorn |-> FALSE]

Init ==
  /\ fs = [p \in Paths |-> NoNode]
  /\ last = NoCall
  /\ sc = NoScript
  /\ mp = IdleMp
  /\ nops = 0

(***************************************************************************)
(* API calls                                                               *)
(***************************************************************************)
PathExistsCall(p) ==
  /\ ~Running
  /\ Permit("PathExists", p, FALSE)
  /\ LET r == PathExists(fs, p)
     IN /\ last' = Call("PathExists", p, Root, FALSE, "nil", <<>>, r)
        /\ sc' = Advance(r)
  /\ mp' = IdleMp
  /\ UNCHANGED <<fs, nops>>

\* the path is only handed to the external mechanism; run and out are what
\* the mechanism answers
PathValidCall(run, out) ==
  /\ ~Running
  /\ ~Active
  /\ LET r == PathValid(run, out)
     IN last' = Call("PathValid", Root, Root, FALSE, run, out, r)
  /\ sc' = NoScript
  /\ mp' = IdleMp
  /\ UNCHANGED <<fs, nops>>

MkdirCall(p) ==
  /\ ~Running
  /\ Permit("Mkdir", p, FALSE)
  /\ Budget
  /\ LET r == Mkdir(fs, p)
     IN /\ r.err.code # "OutOfModel"
        /\ fs' = r.fs
        /\ last' = Call("Mkdir", p, Root, FALSE, "nil", <<>>, Ret(FALSE, r.err))
        /\ sc' = Advance(Ret(FALSE, r.err))
  /\ nops' = nops + 1
  /\ mp' = IdleMp

\* also the other process of an unmount race: while an IsMountPoint call is
\* in progress it removes the link or its target
RmdirCall(p, force) ==
  /\ Permit("Rmdir", p, force)
  /\ Budget
  /\ LET r == Rmdir(fs, p, force)
     IN /\ fs' = r.fs
        /\ last' = Call("Rmdir", p, Root, force, "nil", <<>>, Ret(FALSE, r.err))
        /\ sc' = Advance(Ret(FALSE, r.err))
        /\ mp' = IF mp.pc \in {"lstat", "readlink"}
                 THEN [mp EXCEPT !.linkTorn = @ \/ Readlink(r.fs, mp.path).err # Nil]
                 ELSE IF Running THEN mp ELSE IdleMp
  /\ nops' = IF Running THEN nops ELSE nops + 1

LinkPathCall(oldname, newname) ==
  /\ ~Running
  /\ Permit("LinkPath", newname, FALSE)
  /\ Budget
  /\ LET r == LinkPath(fs, oldname, newname)
     IN /\ r.err.code # "OutOfModel"
        /\ fs' = r.fs
        /\ last' = Call("LinkPath", newname, oldname, FALSE, "nil", <<>>, Ret(FALSE, r.err))
        /\ sc' = Advance(Ret(FALSE, r.err))
  /\ nops' = nops + 1
  /\ mp' = IdleMp

IsMountPointCall(p) ==
  /\ ~Running
  /\ Permit("IsMountPoint", p, FALSE)
  /\ LET r == IsMountPoint(fs, p)
     IN /\ last' = Call("IsMountPoint", p, Root, FALSE, "nil", <<>>, r)
        /\ sc' = Advance(r)
  /\ mp' = IdleMp
  /\ UNCHANGED <<fs, nops>>

(***************************************************************************)
(* IsMountPoint, one OS call per step                                      *)
(***************************************************************************)
\* a caller polls a mount (a link whose target exists) while it is torn down
MpStart(p) ==
  /\ ~Running
  /\ ~Active
  /\ Mounted(fs, p)
  /\ mp' = [pc |-> "lstat", path |-> p, target |-> Root, ret |-> Ret(FALSE, Nil),
            linkTorn |-> FALSE]
  /\ sc' = NoScript
  /\ last' = NoCall
  /\ UNCHANGED <<fs, nops>>

MpLstatStep ==
  /\ mp.pc = "lstat"
  /\ LET s == MpLstat(fs, mp.path)
     IN mp' = IF s.done THEN [mp EXCEPT !.pc = "done", !.ret = s.ret]
              ELSE [mp EXCEPT !.pc = "readlink"]
  /\ UNCHANGED <<fs, last, sc, nops>>

MpReadlinkStep ==
  /\ mp.pc = "readlink"
  /\ LET s == MpReadlink(fs, mp.path)
     IN mp' = IF s.done THEN [mp EXCEPT !.pc = "done", !.ret = s.ret]
              ELSE [mp EXCEPT !.pc = "exists", !.target = s.target]
  /\ UNCHANGED <<fs, last, sc, nops>>

MpExistsStep ==
  /\ mp.pc = "exists"
  /\ mp' = [mp EXCEPT !.pc = "done", !.ret = MpExists(fs, mp.target)]
  /\ UNCHANGED <<fs, last, sc, nops>>

(***************************************************************************)
(* Environment                                                             *)
(***************************************************************************)
\* a caller starts one of the fixed call sequences on path p, from a state
\* the sequence is meant for: "lifecycle" on a path that is absent, "rmdir2"
\* on a non-empty directory, "teardown" on a link whose target exists
Begin(name, p) ==
  /\ ~Running
  /\ ~Active
  /\ nops <= MaxOps
  /\ name = "lifecycle" => Classify(fs, p) = "NotExist"
  /\ name = "rmdir2" => Classify(fs, p) = "dirNonEmpty"
  /\ name = "teardown" => Mounted(fs, p)
  /\ sc' = [name |-> name, path |-> p,
            tgt |-> IF name = "teardown" THEN Readlink(fs, p).target ELSE Root,
            pre |-> Classify(fs, p), res |-> << >>]
  /\ last' = NoCall
  /\ mp' = IdleMp
  /\ UNCHANGED <<fs, nops>>

\* another process creates a regular file
CreateFile(p) ==
  /\ ~Running
  /\ ~Active
  /\ Budget
  /\ LET r == Create(fs, p, FileNode)
     IN /\ r.err = Nil
        /\ fs' = r.fs
  /\ last' = NoCall
  /\ sc' = NoScript
  /\ nops' = nops + 1
  /\ mp' = IdleMp

Next ==
  \/ \E p \in Args : PathExistsCall(p)
  \/ \E run \in RunErrs, out \in Outputs : PathValidCall(run, out)
  \/ \E p \in Args : MkdirCall(p)
  \/ \E p \in Args \ {Root}, force \in BOOLEAN : RmdirCall(p, force)
  \/ \E o \in Args, n \in Args : LinkPathCall(o, n)
  \/ \E p \in Args : IsMountPointCall(p)
  \/ \E p \in Args : MpStart(p)
  \/ MpLstatStep
  \/ MpReadlinkStep
  \/ MpExistsStep
  \/ \E name \in ScriptNames, p \in Args : Begin(name, p)
  \/ \E p \in Paths : CreateFile(p)

Spec == Init /\ [][Next]_vars

TypeOK ==
  /\ fs \in [Paths -> [kind : Kinds, target : Args]]
  /\ nops \in 0..(MaxOps + 2)
  /\ mp.pc \in {"idle", "lstat", "readlink", "exists", "done"}
  /\ sc.name \in ScriptNames \cup {"none"}

(***************************************************************************)
(* What the filesystem holds, read off the tree                            *)
(***************************************************************************)
StatusOf(f, p) == Lstat(f, p).err.code
Exists(f, p) == StatusOf(f, p) = "nil"
IsLink(f, p) == Exists(f, p) /\ Lstat(f, p).kind = "link"
TargetOf(f, p) == f[Lstat(f, p).real].target

(***************************************************************************)
(* C1  IsMountPoint on a path that exists                                  *)
(***************************************************************************)
\* C1 as stated: for a path P that exists, IsMountPoint(P) never returns an
\* error and returns true exactly when P is a link whose target exists.
C1_Original ==
  (last.op = "IsMountPoint" /\ Exists(fs, last.path)) =>
     /\ last.err = Nil
     /\ last.val = (IsLink(fs, last.path) /\ Exists(fs, TargetOf(fs, last.path)))

\* C1 amended: for a path P that exists, IsMountPoint(P) returns (false, nil)
\* when P is not a link, (true, nil) when P is a link whose target exists,
\* (false, nil) when P is a link whose target is not found, and (false, err)
\* exactly when P is a link and the lstat of its target fails with an error
\* err other than not-found.
C1_MountPointOfExistingPath ==
  (last.op = "IsMountPoint" /\ Exists(fs, last.path)) =>
     IF ~IsLink(fs, last.path) THEN last.val = FALSE /\ last.err = Nil
     ELSE LET t == Lstat(fs, TargetOf(fs, last.path))
          IN IF t.err = Nil THEN last.val = TRUE /\ last.err = Nil
             ELSE IF IsNotExist(t.err) THEN last.val = FALSE /\ last.err = Nil
             ELSE last.val = FALSE /\ last.err = t.err

C1_Witness ==
  /\ last.op = "IsMountPoint"
  /\ IsLink(fs, last.path)
  /\ Exists(fs, TargetOf(fs, last.path))
  /\ last.val = TRUE
  /\ last.err = Nil

(***************************************************************************)
(* C2  IsMountPoint on a path that does not exist                          *)
(***************************************************************************)
\* C2 as stated: for a path P that does not exist, IsMountPoint(P) returns
\* (false, nil).
C2_Original ==
  (last.op = "IsMountPoint" /\ StatusOf(fs, last.path) = "NotExist") =>
     (last.val = FALSE /\ last.err = Nil)

\* C2 amended: for a path P that does not exist, IsMountPoint(P) returns
\* false together with the not-found error of the lstat; only a dangling
\* link yields the clean (false, nil).
C2_AbsentPathIsAnError ==
  /\ (last.op = "IsMountPoint" /\ StatusOf(fs, last.path) = "NotExist") =>
        (last.val = FALSE /\ last.err = Err("NotExist"))
  /\ (last.op = "IsMountPoint" /\ IsLink(fs, last.path)
        /\ StatusOf(fs, TargetOf(fs, last.path)) = "NotExist") =>
        (last.val = FALSE /\ last.err = Nil)

C2_Witness ==
  /\ last.op = "IsMountPoint"
  /\ StatusOf(fs, last.path) = "NotExist"
  /\ last.val = FALSE
  /\ IsNotExist(last.err)

(***************************************************************************)
(* C3  PathExists                                                          *)
(***************************************************************************)
\* C3: PathExists(P) returns (false, nil) when P is not found, (true, nil)
\* when the lstat of P succeeds, and (false, err) only when the lstat fails
\* with an error other than not-found; not-found is never an error.
C3_PathExists ==
  last.op = "PathExists" =>
     LET st == Lstat(fs, last.path)
     IN /\ ~IsNotExist(last.err)
        /\ IF st.err = Nil THEN last.val = TRUE /\ last.err = Nil
           ELSE IF IsNotExist(st.err) THEN last.val = FALSE /\ last.err = Nil
           ELSE last.val = FALSE /\ last.err = st.err

C3_Witness ==
  /\ last.op = "PathExists"
  /\ StatusOf(fs, last.path) = "NotExist"
  /\ last.val = FALSE
  /\ last.err = Nil

(***************************************************************************)
(* C4  a mount is torn down between two polls                              *)
(***************************************************************************)
LinkInPlace == Readlink(fs, sc.path) = [err |-> Nil, target |-> sc.tgt]

\* C4: L is a link to an existing target T and IsMountPoint(L) returns
\* (true, nil); once T is deleted with L left in place, every later
\* IsMountPoint(L) returns (false, nil); no poll returns an error.
C4_TeardownBetweenPolls ==
  sc.name = "teardown" =>
     /\ Len(sc.res) >= 1 => sc.res[1] = Ret(TRUE, Nil)
     /\ (Len(sc.res) >= 3 /\ sc.res[2].err = Nil /\ LinkInPlace) =>
           \A i \in 3..Len(sc.res) : sc.res[i] = Ret(FALSE, Nil)

C4_Witness ==
  /\ sc.name = "teardown"
  /\ Len(sc.res) = 4
  /\ sc.res[1] = Ret(TRUE, Nil)
  /\ sc.res[2].err = Nil
  /\ LinkInPlace
  /\ StatusOf(fs, sc.tgt) = "NotExist"
  /\ sc.res[3] = Ret(FALSE, Nil)
  /\ sc.res[4] = Ret(FALSE, Nil)

(***************************************************************************)
(* C5  Rmdir of a non-empty directory, without and with force              *)
(***************************************************************************)
\* C5: on a non-empty directory P, Rmdir(P, false) returns an error and
\* changes nothing; Rmdir(P, true) then returns success and P and everything
\* beneath it are gone, PathExists(P) being (false, nil).
C5_RmdirNonEmpty ==
  [][ (sc.name = "rmdir2" /\ sc'.name = "rmdir2"
         /\ Len(sc'.res) = Len(sc.res) + 1) =>
        IF Len(sc.res) = 0
        THEN sc'.res[1].err # Nil /\ fs' = fs
        ELSE /\ sc'.res[2].err = Nil
             /\ \A q \in Paths : IsPrefix(Lstat(fs, sc.path).real, q)
                                   => fs'[q].kind = "none"
             /\ StatusOf(fs', sc.path) = "NotExist"
             /\ PathExists(fs', sc.path) = Ret(FALSE, Nil) ]_vars

C5_Witness ==
  /\ sc.name = "rmdir2"
  /\ sc.pre = "dirNonEmpty"
  /\ Len(sc.res) = 2
  /\ sc.res[1].err # Nil
  /\ sc.res[2].err = Nil
  /\ StatusOf(fs, sc.path) = "NotExist"

(***************************************************************************)
(* C6  Mkdir twice                                                         *)
(***************************************************************************)
\* C6: when Mkdir(P) succeeds, a second Mkdir(P) succeeds too and leaves the
\* filesystem exactly as the first call left it, P resolving to a directory.
C6_MkdirIdempotent ==
  [][ (sc.name = "mkdir2" /\ sc'.name = "mkdir2"
         /\ Len(sc.res) = 1 /\ Len(sc'.res) = 2 /\ sc.res[1].err = Nil) =>
        /\ sc'.res[2].err = Nil
        /\ fs' = fs
        /\ Stat(fs', sc.path).err = Nil
        /\ Stat(fs', sc.path).kind = "dir" ]_vars

C6_Witness ==
  /\ sc.name = "mkdir2"
  /\ sc.pre = "NotExist"
  /\ Len(sc.res) = 2
  /\ sc.res[1].err = Nil
  /\ sc.res[2].err = Nil
  /\ Lstat(fs, sc.path).kind = "dir"

(***************************************************************************)
(* C7  PathExists, Mkdir, PathExists, Rmdir, PathExists                    *)
(***************************************************************************)
LifecycleExpected ==
  << Ret(FALSE, Nil), Ret(FALSE, Nil), Ret(TRUE, Nil), Ret(FALSE, Nil), Ret(FALSE, Nil) >>

RECURSIVE TrimRight(_)
TrimRight(s) ==
  IF s # <<>> /\ s[Len(s)] \in {"\r", "\n"} THEN TrimRight(SubSeq(s, 1, Len(s) - 1))
  ELSE s
\* the output is an affirmative or a negative token after case folding
Parseable(out) == TrimRight(ToLower(out)) \in {TrueTok, FalseTok}
\* the outputs that begin with "true" in some casing
Affirmative == { <<"T", "r", "u", "e", "\r", "\n">>, <<"T", "R", "U", "E">>,
                 <<"t", "r", "u", "e">> }

\* C8 as stated: PathValid returns an error carrying the raw output whenever
\* the mechanism fails to run or its output is unparseable, and a clean
\* boolean only when the mechanism ran and its output is parseable.
C8_Original ==
  last.op = "PathValid" =>
     IF last.run # "nil" \/ ~Parseable(last.out)
     THEN last.err # Nil /\ last.err.out = last.out
     ELSE last.err = Nil /\ last.val = (last.out \in Affirmative)

\* C8 amended: PathValid returns an error carrying the raw output exactly
\* when the mechanism fails to run; whenever it ran, PathValid returns a
\* clean boolean, true when the lower-cased output starts with "true" and
\* false otherwise, unparseable output included.
C8_PathValid ==
  last.op = "PathValid" =>
     IF last.run # "nil"
     THEN last.val = FALSE /\ last.err.code = last.run /\ last.err.out = last.out
     ELSE last.err = Nil /\ last.val = (last.out \in Affirmative)

C8_Witness ==
  /\ last.op = "PathValid"
  /\ last.run = "nil"
  /\ last.out = <<"T", "R", "U", "E">>
  /\ last.val = TRUE
  /\ last.err = Nil

(***************************************************************************)
(* C9  IsMountPoint during an unmount race                                 *)
(***************************************************************************)
\* C9 as stated: when another process deletes the link target or removes
\* the link itself between the steps of IsMountPoint(L), the call returns
\* (true, nil) or (false, nil), never an error.
C9_Original == mp.pc = "done" => mp.ret.err = Nil

\* C9 amended: when another process deletes the link target between the
\* steps of IsMountPoint(L), the call returns (true, nil) or (false, nil),
\* never an error; when it removes the link L itself before the readlink
\* step, the call returns an error.
C9_PollDuringTeardown == mp.pc = "done" => (mp.ret.err = Nil <=> ~mp.linkTorn)

C9_Witness ==
  /\ mp.pc = "done"
  /\ ~mp.linkTorn
  /\ mp.ret = Ret(FALSE, Nil)
  /\ IsLink(fs, mp.path)
  /\ StatusOf(fs, mp.target) = "NotExist"

(***************************************************************************)
(* C10  one level of link                                                  *)
(***************************************************************************)
\* C10: when L is a link whose target T is itself a link, IsMountPoint(L)
\* returns (true, nil) whether or not T's own target exists.
C10_OneLevelOfLink ==
  (last.op = "IsMountPoint" /\ IsLink(fs, last.path)
     /\ IsLink(fs, TargetOf(fs, last.path))) =>
     (last.val = TRUE /\ last.err = Nil)

C10_Witness ==
  /\ last.op = "IsMountPoint"
  /\ IsLink(fs, last.path)
  /\ IsLink(fs, TargetOf(fs, last.path))
  /\ ~Exists(fs, TargetOf(fs, TargetOf(fs, last.path)))
  /\ ~Mounted(fs, TargetOf(fs, last.path))
  /\ last.val = TRUE
  /\ last.err = Nil

====
